---- MODULE Spec2Model ----
(***************************************************************************)
(* A model of the LAN speed-test pair: Server/Server.py (offer beacon,     *)
(* TCP handler, UDP request loop and UDP send tasks) and Client/Client.py  *)
(* (offer listener, TCP probe, UDP probe).                                 *)
(*                                                                         *)
(* Datagrams are byte strings.  A datagram is the record                   *)
(*   [head |-> <<b1, ..., bn>>, tail |-> k]                                *)
(* standing for the n explicit bytes of head followed by k further bytes   *)
(* whose values the programs never inspect (random.randbytes payload).     *)
(* Every datagram of the model with tail > 0 has a head of 21 bytes, so    *)
(* the slices data[:13] and data[:21] of the code fall inside head.        *)
(*                                                                         *)
(* TLC's integers are 32 bits wide and 0xabcddcba is not one of them: a    *)
(* 32-bit field ('I') is kept as its four big-endian bytes.               *)
(***************************************************************************)
EXTENDS Integers, Sequences, FiniteSets, TLC

VARIABLES
    \* ---- Server: _handle_udp_requests / _send_udp_data
    udp_recv_count,     \* datagrams the request loop has taken off udp_socket
    udp_threads,        \* the send threads spawned so far, in spawn order
    \* ---- Server: __init__ and _broadcast_offers
    actual_udp_port, actual_tcp_port,
    beacon_pc,          \* "send" | "sleep" | "dead" (uncaught exception)
    beacon_ticks,       \* completed sleeps
    offers_sent,        \* offers handed to the network, in order
    send_failures,      \* sendto calls of the beacon that raised
    \* ---- Client: listen_for_offers
    listen_pc,          \* "recv" | "done" | "crashed" (uncaught struct.error)
    server_ip, tcp_port, udp_port,
    endpoint_at_listen, \* ghost: <<server_ip, tcp_port, udp_port>> on entry
    offers_seen,        \* ghost: what recvfrom returned, in order
    \* ---- Client: tcp_transfer
    tcp_pc,             \* "connect" | "recv" | "finished" | "error"
    tcp_recv_calls,     \* recv calls that returned data
    tcp_total_received,
    tcp_total_time,
    tcp_speed,
    tcp_error,          \* the exception the except clause printed, or None
    tcp_socket_closed,
    \* ---- Client: udp_transfer
    probe_pc,           \* "start" | "recv" | "finished" | "error"
    total_received,
    received_segments,
    total_segments_reported,
    total_time,
    speed,
    success_percent,
    probe_error,        \* the exception the except clause printed, or None
    probe_socket_closed,
    idle_ticks,         \* ticks the pending recvfrom has waited
    silent_ticks,       \* ghost: ticks since the last datagram (or start)
    probe_history,      \* ghost: every datagram recvfrom returned, in order
    probe_connection_id,\* the connection_id argument of udp_transfer
    probe_printed,      \* the line the probe printed when it ended, or None
    \* ---- Client: __init__
    client_file_size,   \* self.file_size
    tcp_connections, udp_connections,
    \* ---- Server: _accept_tcp_connections / _handle_tcp_client
    tcp_conns,          \* per peer, its connection and the handler serving it
    \* ---- Client: run_program / run / speed_test
    session_pc,         \* "listen" | "start_tcp" | "start_udp" | "join" | "complete"
    threads,            \* the list `threads` of speed_test
    joined,             \* threads of the list that t.join() has returned for
    sessions_started,   \* calls of client.run() so far
    session_endpoint,   \* ghost: <<server_ip, tcp_port, udp_port>> when speed_test began
    stop_requested,     \* ghost: somebody has asked the client to stop
    sessions_at_stop    \* ghost: sessions_started when that happened

server_vars == <<udp_recv_count, udp_threads>>
beacon_vars == <<actual_udp_port, actual_tcp_port, beacon_pc, beacon_ticks,
                 offers_sent, send_failures>>
listen_vars == <<listen_pc, server_ip, tcp_port, udp_port, endpoint_at_listen,
                 offers_seen>>
tcp_vars    == <<tcp_pc, tcp_recv_calls, tcp_total_received, tcp_total_time,
                 tcp_speed, tcp_error, tcp_socket_closed>>
probe_vars  == <<probe_pc, total_received, received_segments,
                 total_segments_reported, total_time, speed, success_percent,
                 probe_error, probe_socket_closed, idle_ticks, silent_ticks,
                 probe_history, probe_connection_id, probe_printed>>
config_vars == <<client_file_size, tcp_connections, udp_connections>>
tcpsrv_vars == <<tcp_conns>>
session_vars == <<session_pc, threads, joined, sessions_started,
                  session_endpoint, stop_requested, sessions_at_stop>>
ext_vars    == <<config_vars, tcpsrv_vars, session_vars>>
vars == <<server_vars, beacon_vars, listen_vars, tcp_vars, probe_vars, ext_vars>>

-----------------------------------------------------------------------------
(* Bounds of the model *)

\* datagrams the UDP request loop takes before the model stops it
MaxRequests == 2
\* the largest number of whole 1024-byte chunks in a requested size
MaxChunks == 2

-----------------------------------------------------------------------------
(* Constants of the programs *)

\* 0xabcddcba, big-endian
MAGIC_COOKIE == <<171, 205, 220, 186>>
MESSAGE_TYPE_OFFER == 2
MESSAGE_TYPE_REQUEST == 3
MESSAGE_TYPE_PAYLOAD == 4
chunk_data_size == 1024
\* udp_socket.settimeout(1): seconds recvfrom waits for a datagram
IDLE_TIMEOUT == 1

\* Python's None, and a variable holding the value v
None == <<>>
Some(v) == <<v>>
Val(o) == o[1]

-----------------------------------------------------------------------------
(* struct.pack / struct.unpack, network byte order *)

Min(a, b) == IF a <= b THEN a ELSE b

RECURSIVE PackBE(_, _)
\* the n low-order bytes of v, most significant first
PackBE(v, n) == IF n = 0 THEN <<>> ELSE Append(PackBE(v \div 256, n - 1), v % 256)

RECURSIVE UnpackBE(_)
UnpackBE(bytes) ==
    IF Len(bytes) = 0 THEN 0
    ELSE UnpackBE(SubSeq(bytes, 1, Len(bytes) - 1)) * 256 + bytes[Len(bytes)]

\* len(data)
DLen(d) == Len(d.head) + d.tail
\* data[:n]
Slice(d, n) == SubSeq(d.head, 1, Min(n, Len(d.head)))

\* struct.pack('>IBQ', cookie, msg_type, file_size)
PackRequest(cookie, msg_type, file_size) ==
    cookie \o <<msg_type>> \o PackBE(file_size, 8)

\* struct.unpack('>IBQ', bytes): cookie, msg_type, file_size
UnpackRequest(bytes) ==
    [cookie    |-> SubSeq(bytes, 1, 4),
     msg_type  |-> bytes[5],
     file_size |-> UnpackBE(SubSeq(bytes, 6, 13))]

\* struct.pack('>IBQQ', cookie, msg_type, total_segments, segment_idx)
PackPayloadHeader(cookie, msg_type, total_segments, segment_idx) ==
    cookie \o <<msg_type>> \o PackBE(total_segments, 8) \o PackBE(segment_idx, 8)

\* struct.unpack('>IBQQ', bytes): cookie, msg_type, total_segs, curr_seg
UnpackPayloadHeader(bytes) ==
    [cookie     |-> SubSeq(bytes, 1, 4),
     msg_type   |-> bytes[5],
     total_segs |-> UnpackBE(SubSeq(bytes, 6, 13)),
     curr_seg   |-> UnpackBE(SubSeq(bytes, 14, 21))]

-----------------------------------------------------------------------------
(* Server._handle_udp_requests and Server._send_udp_data *)

ClientAddrs == {"10.0.0.2:5001", "10.0.0.3:5002"}

\* the byte counts a client asks for: 0, and around every chunk boundary
FileSizes ==
    {0} \cup {k * chunk_data_size + d : k \in 0 .. (MaxChunks - 1),
                                        d \in {1, chunk_data_size}}

\* what can arrive on the server's UDP socket: well-formed requests, and
\* datagrams that are too short, carry another cookie or another type
RequestDatagrams ==
    {[head |-> PackRequest(MAGIC_COOKIE, MESSAGE_TYPE_REQUEST, n), tail |-> 0] :
        n \in FileSizes}
    \cup {[head |-> <<171, 205, 220>>, tail |-> 0],
          [head |-> SubSeq(PackRequest(MAGIC_COOKIE, MESSAGE_TYPE_REQUEST, 1), 1, 12),
           tail |-> 0],
          [head |-> PackRequest(<<171, 205, 220, 187>>, MESSAGE_TYPE_REQUEST, 1),
           tail |-> 0],
          [head |-> PackRequest(MAGIC_COOKIE, MESSAGE_TYPE_OFFER, 1), tail |-> 0]}

TotalSegmentsFloor(file_size) == file_size \div chunk_data_size
\* total_segments = (file_size + chunk_data_size - 1) // chunk_data_size
TotalSegments(file_size) ==
    (file_size + chunk_data_size - 1) \div chunk_data_size

\* start_index, end_index, chunk_len of one loop iteration
ChunkLen(file_size, segment_idx) ==
    LET start_index == segment_idx * chunk_data_size
        end_index   == Min(start_index + chunk_data_size, file_size)
    IN  end_index - start_index

PayloadHeaderSwapped(total_segments, segment_idx) ==
    PackPayloadHeader(MAGIC_COOKIE, MESSAGE_TYPE_PAYLOAD, segment_idx, total_segments)
\* header = struct.pack('>IBQQ', MAGIC_COOKIE, MESSAGE_TYPE_PAYLOAD, ...)
PayloadHeader(total_segments, segment_idx) ==
    PackPayloadHeader(MAGIC_COOKIE, MESSAGE_TYPE_PAYLOAD, total_segments, segment_idx)

\* the thread started by threading.Thread(target=self._send_udp_data, ...):
\* its arguments and its locals before the first loop iteration
NewSendThread(file_size, client_addr) ==
    [file_size      |-> file_size,
     client_addr    |-> client_addr,
     pc             |-> "loop",
     total_segments |-> TotalSegments(file_size),
     segment_idx    |-> 0,
     bytes_sent     |-> 0,
     sent           |-> <<>>]

\* one iteration of `while True` in _handle_udp_requests: recvfrom returns
\* (data, client_addr); a short or foreign datagram is skipped, a request
\* spawns a send thread
HandleUdpRequest(data, client_addr) ==
    /\ udp_recv_count < MaxRequests
    /\ udp_recv_count' = udp_recv_count + 1
    /\ IF DLen(data) < 13
       THEN UNCHANGED udp_threads
       ELSE LET req == UnpackRequest(Slice(data, 13))
            IN  IF req.cookie # MAGIC_COOKIE \/ req.msg_type # MESSAGE_TYPE_REQUEST
                THEN UNCHANGED udp_threads
                ELSE udp_threads' =
                         Append(udp_threads, NewSendThread(req.file_size, client_addr))
    /\ UNCHANGED <<beacon_vars, listen_vars, tcp_vars, probe_vars, ext_vars>>

SendDestinationShared(t) == udp_threads[Len(udp_threads)].client_addr
\* client_addr of thread t: an argument of the thread, args=(file_size,
\* client_addr), not an attribute of the server
SendDestination(t) == udp_threads[t].client_addr

\* one iteration of `for segment_idx in range(total_segments)` of thread t
SendSegment(t) ==
    LET th == udp_threads[t]
        chunk_len == ChunkLen(th.file_size, th.segment_idx)
        header == PayloadHeader(th.total_segments, th.segment_idx)
    IN  /\ th.pc = "loop"
        /\ th.segment_idx < th.total_segments
        /\ udp_threads' = [udp_threads EXCEPT ![t] =
               [th EXCEPT !.sent = Append(@, [dst  |-> SendDestination(t),
                                              data |-> [head |-> header,
                                                        tail |-> chunk_len]]),
                          !.bytes_sent = @ + chunk_len,
                          !.segment_idx = @ + 1]]
        /\ UNCHANGED <<udp_recv_count, beacon_vars, listen_vars, tcp_vars,
                       probe_vars, ext_vars>>

\* the range is exhausted: the final print, and the thread ends
SendDone(t) ==
    LET th == udp_threads[t]
    IN  /\ th.pc = "loop"
        /\ th.segment_idx >= th.total_segments
        /\ udp_threads' = [udp_threads EXCEPT ![t] = [th EXCEPT !.pc = "done"]]
        /\ UNCHANGED <<udp_recv_count, beacon_vars, listen_vars, tcp_vars,
                       probe_vars, ext_vars>>

-----------------------------------------------------------------------------
(* Server._broadcast_offers *)

\* beacon sleeps the model lets pass
MaxTicks == 2

ServerIp == "10.0.0.1"
\* the ports the sockets got from bind (0 = ephemeral)
ServerUdpPorts == {5005, 40001}
ServerTcpPorts == {5006}

\* struct.pack('>IBHH', cookie, msg_type, first, second)
PackOffer(cookie, msg_type, first, second) ==
    cookie \o <<msg_type>> \o PackBE(first, 2) \o PackBE(second, 2)

\* offer_packet of one loop iteration
OfferPacket ==
    PackOffer(MAGIC_COOKIE, MESSAGE_TYPE_OFFER, actual_udp_port, actual_tcp_port)

\* udp_socket.sendto(offer_packet, ...) returns; the thread goes to sleep
BroadcastOffer ==
    /\ beacon_pc = "send"
    /\ offers_sent' = Append(offers_sent, [head |-> OfferPacket, tail |-> 0])
    /\ beacon_pc' = "sleep"
    /\ UNCHANGED <<actual_udp_port, actual_tcp_port, beacon_ticks, send_failures>>
    /\ UNCHANGED <<server_vars, listen_vars, tcp_vars, probe_vars, ext_vars>>

\* where the thread is after sendto raised: no try encloses the call, the
\* exception leaves `while True` and ends the thread
BeaconAfterFailure == "dead"

\* udp_socket.sendto(offer_packet, ...) raises OSError
BroadcastOfferFails ==
    /\ beacon_pc = "send"
    /\ send_failures' = send_failures + 1
    /\ beacon_pc' = BeaconAfterFailure
    /\ UNCHANGED <<actual_udp_port, actual_tcp_port, beacon_ticks, offers_sent>>
    /\ UNCHANGED <<server_vars, listen_vars, tcp_vars, probe_vars, ext_vars>>

\* time.sleep(BROADCAST_ANNOUNCEMENT_TIME) returns
BeaconSleep ==
    /\ beacon_pc = "sleep"
    /\ beacon_ticks < MaxTicks
    /\ beacon_ticks' = beacon_ticks + 1
    /\ beacon_pc' = "send"
    /\ UNCHANGED <<actual_udp_port, actual_tcp_port, offers_sent, send_failures>>
    /\ UNCHANGED <<server_vars, listen_vars, tcp_vars, probe_vars, ext_vars>>

-----------------------------------------------------------------------------
(* Client.listen_for_offers *)

\* datagrams the listener takes before the model stops it
MaxListenRecv == 3

OtherIp == "10.0.0.9"

\* what else can arrive on port 13117: datagrams of another length, 9-byte
\* datagrams with another cookie or another type, and another server's offer
ForeignOfferDatagrams ==
    {[head |-> <<>>, tail |-> 0],
     [head |-> SubSeq(PackOffer(MAGIC_COOKIE, MESSAGE_TYPE_OFFER, 7001, 7002), 1, 5),
      tail |-> 0],
     [head |-> PackOffer(MAGIC_COOKIE, MESSAGE_TYPE_OFFER, 7001, 7002) \o <<0>>,
      tail |-> 0],
     [head |-> PackOffer(<<186, 220, 205, 171>>, MESSAGE_TYPE_OFFER, 7001, 7002),
      tail |-> 0],
     [head |-> PackOffer(MAGIC_COOKIE, MESSAGE_TYPE_REQUEST, 7001, 7002),
      tail |-> 0],
     [head |-> PackOffer(MAGIC_COOKIE, MESSAGE_TYPE_OFFER, 7001, 7002),
      tail |-> 0]}

\* struct.unpack('!IBHH', message) succeeds only on exactly 9 bytes
OfferUnpackable(message) == DLen(message) = 9

UnpackOfferTcpFirst(bytes) ==
    [magic_cookie |-> SubSeq(bytes, 1, 4),
     message_type |-> bytes[5],
     udp_port     |-> UnpackBE(SubSeq(bytes, 8, 9)),
     tcp_port     |-> UnpackBE(SubSeq(bytes, 6, 7))]
\* magic_cookie, message_type, udp_port, tcp_port = struct.unpack('!IBHH', message)
UnpackOffer(bytes) ==
    [magic_cookie |-> SubSeq(bytes, 1, 4),
     message_type |-> bytes[5],
     udp_port     |-> UnpackBE(SubSeq(bytes, 6, 7)),
     tcp_port     |-> UnpackBE(SubSeq(bytes, 8, 9))]

OfferAcceptedAnyCookie(o) == o.message_type = MESSAGE_TYPE_OFFER
\* if magic_cookie == MAGIC_COOKIE and message_type == MESSAGE_TYPE_OFFER
OfferAccepted(o) ==
    o.magic_cookie = MAGIC_COOKIE /\ o.message_type = MESSAGE_TYPE_OFFER

\* one iteration of `while True` in listen_for_offers: recvfrom returns
\* (message, addr).  A message that is not 9 bytes long makes struct.unpack
\* raise struct.error; nothing in listen_for_offers, run or run_program
\* catches it, and the client ends.
ListenRecv(message, ip) ==
    /\ listen_pc = "recv"
    /\ Len(offers_seen) < MaxListenRecv
    /\ offers_seen' = Append(offers_seen, [message |-> message, ip |-> ip])
    /\ IF ~OfferUnpackable(message)
       THEN /\ listen_pc' = "crashed"
            /\ UNCHANGED <<server_ip, tcp_port, udp_port>>
       ELSE LET o == UnpackOffer(Slice(message, 9))
            IN  IF OfferAccepted(o)
                THEN /\ server_ip' = Some(ip)
                     /\ tcp_port' = Some(o.tcp_port)
                     /\ udp_port' = Some(o.udp_port)
                     /\ listen_pc' = "done"
                ELSE UNCHANGED <<listen_pc, server_ip, tcp_port, udp_port>>
    /\ UNCHANGED endpoint_at_listen
    /\ UNCHANGED <<server_vars, beacon_vars, tcp_vars, probe_vars, ext_vars>>

\* the listener takes a datagram the beacon broadcast
ListenRecvOffer ==
    \E i \in DOMAIN offers_sent : ListenRecv(offers_sent[i], ServerIp)

\* the listener takes a datagram of some other sender
ListenRecvForeign ==
    \E message \in ForeignOfferDatagrams : ListenRecv(message, OtherIp)

-----------------------------------------------------------------------------
(* Numbers the client computes with `/` are kept as exact fractions *)

Rat(n, d) == [num |-> n, den |-> d]
RatEq(a, b) == a.num * b.den = b.num * a.den
\* a <= b, for positive denominators
RatLe(a, b) == a.num * b.den <= b.num * a.den

\* end_time - start_time, in ticks of the clock time.time() reads; two reads
\* of a coarse clock can return the same value
MaxElapsed == 2
Elapsed == 0 .. MaxElapsed

-----------------------------------------------------------------------------
(* Server._accept_tcp_connections and Server._handle_tcp_client *)

\* client_socket.recv(1024) of the handler, tcp_socket.recv(1024) of the probe
REQUEST_RECV_SIZE == 1024
TCP_RECV_SIZE == 1024
\* buffer_size of the handler's send loop
buffer_size == 4096

\* A TCP request is a byte string, kept as the sequence of its characters.
DigitChars == <<"0", "1", "2", "3", "4", "5", "6", "7", "8", "9">>
Digits == {DigitChars[i] : i \in DOMAIN DigitChars}
Whitespace == {" ", "\n", "\r", "\t"}
DigitValue(c) == (CHOOSE i \in DOMAIN DigitChars : DigitChars[i] = c) - 1

\* str(n) for n >= 0, as f"{self.file_size}" formats it
RECURSIVE DecimalChars(_)
DecimalChars(n) ==
    IF n < 10 THEN <<DigitChars[n + 1]>>
    ELSE Append(DecimalChars(n \div 10), DigitChars[(n % 10) + 1])

\* f"{self.file_size}\n".encode()
TcpRequest(n) == Append(DecimalChars(n), "\n")

\* str.strip(): leading and trailing whitespace removed
RECURSIVE Strip(_)
Strip(str) ==
    IF str = <<>> THEN str
    ELSE IF Head(str) \in Whitespace THEN Strip(Tail(str))
    ELSE IF str[Len(str)] \in Whitespace THEN Strip(SubSeq(str, 1, Len(str) - 1))
    ELSE str

RECURSIVE DecimalValue(_)
DecimalValue(digits) ==
    IF digits = <<>> THEN 0
    ELSE 10 * DecimalValue(SubSeq(digits, 1, Len(digits) - 1))
         + DigitValue(digits[Len(digits)])

\* int(str): an optional sign and one or more decimal digits, else ValueError
ParseInt(str) ==
    LET signed == str # <<>> /\ Head(str) \in {"+", "-"}
        body   == IF signed THEN Tail(str) ELSE str
        isnum  == body # <<>> /\ \A i \in DOMAIN body : body[i] \in Digits
    IN  IF ~isnum THEN [ok |-> FALSE, value |-> 0]
        ELSE [ok    |-> TRUE,
              value |-> IF signed /\ Head(str) = "-"
                        THEN 0 - DecimalValue(body) ELSE DecimalValue(body)]

\* requested_size = int(data.decode().strip()), treating a request that does
\* not parse as one for a buffer's worth
ParseRequestLenient(data) ==
    LET r == ParseInt(Strip(data))
    IN  IF r.ok THEN r ELSE [ok |-> TRUE, value |-> buffer_size]
\* requested_size = int(data.decode().strip())
ParseRequest(data) == ParseInt(Strip(data))

\* the largest number of whole buffers in a size requested over TCP
MaxTcpBlocks == 1
TcpFileSizes == {k * buffer_size + d : k \in 0 .. MaxTcpBlocks, d \in {0, 1}}

\* the peers of the server's TCP socket: the client's probe and one other
\* program
TcpPeers == {"probe", "other"}

\* what the other program sends before it shuts its side down: lines that are
\* not numbers, a number between blanks, a negative number, digits with no
\* line break, a number
OtherRequests ==
    {<<"a", "b", "c", "\n">>, <<"\n">>, <<"1", "2", "x", "\n">>,
     <<" ", "7", " ", "\n">>, <<"-", "5", "\n">>, <<"1", "2">>, TcpRequest(1)}

NoConnection ==
    [pc |-> "none", pending |-> <<>>, peer_shut |-> FALSE, data |-> <<>>,
     reads |-> 0, bytes_left |-> 0, chunks |-> <<>>, error |-> None]

\* a connection in the listen backlog whose peer has sent `request`
\*   pc         "none" | "backlog" | "recv" | "send" | "closed"
\*   pending    bytes the peer has sent and the handler has not read
\*   peer_shut  the peer sends nothing further
\*   data       the handler's data
\*   reads      ghost: recv calls of the handler that returned bytes
\*   chunks     ghost: the size of every sendall of the handler, in order
\*   error      the exception the handler's except clause printed, or None
NewConnection(request, shut) ==
    [NoConnection EXCEPT !.pc = "backlog", !.pending = request, !.peer_shut = shut]

RECURSIVE SumSeq(_)
SumSeq(q) == IF q = <<>> THEN 0 ELSE Head(q) + SumSeq(Tail(q))

\* bytes the probe's handler has sent and the probe has not yet read
InFlight == SumSeq(tcp_conns["probe"].chunks) - tcp_total_received

Range(q) == {q[i] : i \in DOMAIN q}

\* the statements between the receive loop and the send loop: a request that
\* int() rejects raises ValueError, which the except clause prints before the
\* finally clause closes the socket
HandlerParsed(conn, data) ==
    LET r == ParseRequest(data)
    IN  IF r.ok
        THEN [conn EXCEPT !.data = data, !.pc = "send", !.bytes_left = r.value]
        ELSE [conn EXCEPT !.data = data, !.pc = "closed",
                          !.error = Some("ValueError")]

\* accept() returns the connection and its handler thread is started
TcpAccept(c) ==
    /\ tcp_conns[c].pc = "backlog"
    /\ tcp_conns' = [tcp_conns EXCEPT ![c].pc = "recv"]
    /\ UNCHANGED <<server_vars, beacon_vars, listen_vars, tcp_vars, probe_vars,
                   config_vars, session_vars>>

\* chunk = client_socket.recv(1024) returns the next k bytes; the loop breaks
\* once data holds a line break
HandlerRecv(c, k) ==
    LET conn == tcp_conns[c]
        data == conn.data \o SubSeq(conn.pending, 1, k)
        read == [conn EXCEPT !.pending = SubSeq(conn.pending, k + 1,
                                                Len(conn.pending)),
                             !.reads = @ + 1,
                             !.data = data]
    IN  /\ conn.pc = "recv"
        /\ k \in 1 .. Min(REQUEST_RECV_SIZE, Len(conn.pending))
        /\ tcp_conns' = [tcp_conns EXCEPT
                             ![c] = IF "\n" \in Range(data)
                                    THEN HandlerParsed(read, data) ELSE read]
        /\ UNCHANGED <<server_vars, beacon_vars, listen_vars, tcp_vars,
                       probe_vars, config_vars, session_vars>>

\* recv returns b"": the peer has shut down before sending a line break
HandlerRecvEof(c) ==
    LET conn == tcp_conns[c]
    IN  /\ conn.pc = "recv"
        /\ conn.pending = <<>>
        /\ conn.peer_shut
        /\ tcp_conns' = [tcp_conns EXCEPT ![c] = HandlerParsed(conn, conn.data)]
        /\ UNCHANGED <<server_vars, beacon_vars, listen_vars, tcp_vars,
                       probe_vars, config_vars, session_vars>>

HandlerChunkSizeFull(bytes_left) == buffer_size
\* chunk_size = min(buffer_size, bytes_left)
HandlerChunkSize(bytes_left) == Min(buffer_size, bytes_left)

\* one iteration of the send loop: sendall(random_chunk) succeeds
HandlerSend(c) ==
    LET conn == tcp_conns[c]
        chunk_size == HandlerChunkSize(conn.bytes_left)
    IN  /\ conn.pc = "send"
        /\ conn.bytes_left > 0
        /\ tcp_conns' = [tcp_conns EXCEPT
                             ![c].chunks = Append(@, chunk_size),
                             ![c].bytes_left = @ - chunk_size]
        /\ UNCHANGED <<server_vars, beacon_vars, listen_vars, tcp_vars,
                       probe_vars, config_vars, session_vars>>

\* the peer has closed its socket
PeerGone(c) == IF c = "probe" THEN tcp_socket_closed ELSE tcp_conns[c].peer_shut

\* sendall raises because the peer is gone: the except clause prints the
\* error and the finally clause closes the socket
HandlerSendFails(c) ==
    LET conn == tcp_conns[c]
    IN  /\ conn.pc = "send"
        /\ conn.bytes_left > 0
        /\ PeerGone(c)
        /\ tcp_conns' = [tcp_conns EXCEPT ![c].pc = "closed",
                                          ![c].error = Some("OSError")]
        /\ UNCHANGED <<server_vars, beacon_vars, listen_vars, tcp_vars,
                       probe_vars, config_vars, session_vars>>

\* the send loop ends with nothing left to send and the finally clause closes
\* the socket
HandlerFinish(c) ==
    LET conn == tcp_conns[c]
    IN  /\ conn.pc = "send"
        /\ conn.bytes_left <= 0
        /\ tcp_conns' = [tcp_conns EXCEPT ![c].pc = "closed"]
        /\ UNCHANGED <<server_vars, beacon_vars, listen_vars, tcp_vars,
                       probe_vars, config_vars, session_vars>>

\* the other program connects, sends its request and shuts its side down
OtherConnects(request) ==
    /\ tcp_conns["other"].pc = "none"
    /\ tcp_conns' = [tcp_conns EXCEPT !["other"] = NewConnection(request, TRUE)]
    /\ UNCHANGED <<server_vars, beacon_vars, listen_vars, tcp_vars, probe_vars,
                   config_vars, session_vars>>

-----------------------------------------------------------------------------
(* Client.tcp_transfer *)

\* recv calls returning data that the model lets one TCP probe make
MaxTcpReads == 3
\* len(data) of one tcp_socket.recv(1024)
TcpRecvSizes == {1, 512, 1023, 1024}

\* the except clause prints the error and the finally clause closes the socket
TcpFail(e) ==
    /\ tcp_pc' = "error"
    /\ tcp_error' = Some(e)
    /\ tcp_socket_closed' = TRUE

\* socket(), connect() and sendall() succeed; start_time and total_received
\* are set
TcpConnect ==
    /\ tcp_pc = "connect"
    /\ tcp_pc' = "recv"
    /\ tcp_total_received' = 0
    /\ tcp_conns' = [tcp_conns EXCEPT
                         !["probe"] = NewConnection(TcpRequest(client_file_size),
                                                    FALSE)]
    /\ UNCHANGED <<tcp_recv_calls, tcp_total_time, tcp_speed, tcp_error,
                   tcp_socket_closed>>
    /\ UNCHANGED <<server_vars, beacon_vars, listen_vars, probe_vars,
                   config_vars, session_vars>>

\* connect() or sendall() raises (refused, unreachable)
TcpConnectFails ==
    /\ tcp_pc = "connect"
    /\ TcpFail("OSError")
    /\ UNCHANGED <<tcp_recv_calls, tcp_total_received, tcp_total_time, tcp_speed>>
    /\ UNCHANGED <<server_vars, beacon_vars, listen_vars, probe_vars, ext_vars>>

\* data = tcp_socket.recv(1024) returns n > 0 bytes
TcpRecvData(n) ==
    /\ tcp_pc = "recv"
    /\ tcp_recv_calls < MaxTcpReads
    /\ tcp_recv_calls' = tcp_recv_calls + 1
    /\ tcp_total_received' = tcp_total_received + n
    /\ UNCHANGED <<tcp_pc, tcp_total_time, tcp_speed, tcp_error, tcp_socket_closed>>
    /\ UNCHANGED <<server_vars, beacon_vars, listen_vars, probe_vars, ext_vars>>

\* tcp_socket.recv(1024) raises (connection reset)
TcpRecvFails ==
    /\ tcp_pc = "recv"
    /\ TcpFail("OSError")
    /\ UNCHANGED <<tcp_recv_calls, tcp_total_received, tcp_total_time, tcp_speed>>
    /\ UNCHANGED <<server_vars, beacon_vars, listen_vars, probe_vars, ext_vars>>

\* recv returns b"": the loop breaks, end_time is read `elapsed` ticks after
\* start_time, and speed = (total_received * 8) / total_time is computed with
\* no guard: a zero total_time raises ZeroDivisionError inside the try
TcpRecvEof(elapsed) ==
    /\ tcp_pc = "recv"
    /\ tcp_total_time' = Some(elapsed)
    /\ IF elapsed = 0
       THEN /\ TcpFail("ZeroDivisionError")
            /\ UNCHANGED tcp_speed
       ELSE /\ tcp_speed' = Some(Rat(tcp_total_received * 8, elapsed))
            /\ tcp_pc' = "finished"
            /\ tcp_socket_closed' = TRUE
            /\ UNCHANGED tcp_error
    /\ UNCHANGED <<tcp_recv_calls, tcp_total_received>>
    /\ UNCHANGED <<server_vars, beacon_vars, listen_vars, probe_vars, ext_vars>>

\* data = tcp_socket.recv(1024) returns n > 0 of the bytes the handler has
\* sent on the probe's connection
TcpRecvStream(n) ==
    /\ tcp_pc = "recv"
    /\ n \in 1 .. Min(TCP_RECV_SIZE, InFlight)
    /\ tcp_total_received' = tcp_total_received + n
    /\ UNCHANGED <<tcp_pc, tcp_recv_calls, tcp_total_time, tcp_speed, tcp_error,
                   tcp_socket_closed>>
    /\ UNCHANGED <<server_vars, beacon_vars, listen_vars, probe_vars, ext_vars>>

\* recv returns b"" once the handler has closed the connection and every
\* byte it sent has been read
TcpStreamEof(elapsed) ==
    /\ tcp_conns["probe"].pc = "closed"
    /\ InFlight = 0
    /\ TcpRecvEof(elapsed)

-----------------------------------------------------------------------------
(* Client.udp_transfer *)

\* datagrams the model lets one UDP probe receive before the idle timeout
MaxProbeRecv == 3

\* the segments the server's send loop produces for the sizes of FileSizes
ServerSegments ==
    UNION {{[head |-> PayloadHeader(TotalSegments(n), i), tail |-> ChunkLen(n, i)] :
               i \in 0 .. (TotalSegments(n) - 1)} : n \in FileSizes}

\* Payload frames of other senders: one declaring no segments, one whose index
\* is its total, one of a longer transfer
ForeignSegments ==
    {[head |-> PayloadHeader(0, 0), tail |-> 0],
     [head |-> PayloadHeader(1, 1), tail |-> chunk_data_size],
     [head |-> PayloadHeader(MaxChunks + 1, MaxChunks), tail |-> 1]}

\* datagrams the probe discards: shorter than the header, another cookie,
\* another type, nothing at all
JunkDatagrams ==
    {[head |-> <<>>, tail |-> 0],
     [head |-> SubSeq(PayloadHeader(1, 0), 1, 20), tail |-> 0],
     [head |-> PackPayloadHeader(<<171, 205, 220, 187>>, MESSAGE_TYPE_PAYLOAD, 1, 0),
      tail |-> chunk_data_size],
     [head |-> PackPayloadHeader(MAGIC_COOKIE, MESSAGE_TYPE_REQUEST, 1, 0),
      tail |-> chunk_data_size]}

ProbeDatagrams == ServerSegments \cup ForeignSegments \cup JunkDatagrams

PayloadRejectedWrongCookieOnly(h) == h.cookie # MAGIC_COOKIE
\* if cookie != MAGIC_COOKIE or msg_type != MESSAGE_TYPE_PAYLOAD: continue
PayloadRejected(h) ==
    h.cookie # MAGIC_COOKIE \/ h.msg_type # MESSAGE_TYPE_PAYLOAD

\* a list.append in place of the set.add: every call adds an element
AddSegmentAsList(segments, curr_seg) ==
    segments \cup {curr_seg + (MaxChunks + 2) * Cardinality(segments)}
\* received_segments.add(curr_seg)
AddSegment(segments, curr_seg) == segments \cup {curr_seg}

NumSegmentsLostAsReceived(total_segs, segments) == Cardinality(segments)
\* num_segments_lost = total_segments_reported - len(received_segments)
NumSegmentsLost(total_segs, segments) == total_segs - Cardinality(segments)

\* packet_loss_percent = (num_segments_lost / total_segments_reported) * 100
\* success_percent = 100 - packet_loss_percent
SuccessPercent(num_segments_lost, total_segs) ==
    Rat(100 * total_segs - num_segments_lost * 100, total_segs)

\* success_percent = 100, when no valid packet was seen
SuccessPercentUnknown == Rat(100, 1)

ProbeAccountNewSegmentsOnly(acc, data) ==
    IF DLen(data) < 21
    THEN acc
    ELSE LET h == UnpackPayloadHeader(Slice(data, 21))
             payload_len == DLen(data) - 21
         IN  IF PayloadRejected(h)
             THEN acc
             ELSE [total_received          |->
                       IF h.curr_seg \in acc.received_segments
                       THEN acc.total_received
                       ELSE acc.total_received + payload_len,
                   total_segments_reported |-> Some(h.total_segs),
                   received_segments       |-> AddSegment(acc.received_segments,
                                                          h.curr_seg)]

\* the body of the receive loop after recvfrom returned data: the counters
\* acc of the probe after it
ProbeAccount(acc, data) ==
    IF DLen(data) < 21
    THEN acc
    ELSE LET h == UnpackPayloadHeader(Slice(data, 21))
             payload_len == DLen(data) - 21
         IN  IF PayloadRejected(h)
             THEN acc
             ELSE [total_received          |-> acc.total_received + payload_len,
                   total_segments_reported |-> Some(h.total_segs),
                   received_segments       |-> AddSegment(acc.received_segments,
                                                          h.curr_seg)]

\* success_percent as the if/else after the loop sets it, where the division
\* does not raise
ProbeSuccessPercent(reported, segments) ==
    IF reported # None
    THEN SuccessPercent(NumSegmentsLost(Val(reported), segments), Val(reported))
    ELSE SuccessPercentUnknown

\* "UDP transfer #{connection_id} finished, ..." or
\* "UDP transfer #{connection_id} error: ..."
ProbeLine(connection_id, line) ==
    [connection_id |-> connection_id, line |-> line]

\* the except clause prints the error and the finally clause closes the socket
ProbeFail(e) ==
    /\ probe_pc' = "error"
    /\ probe_error' = Some(e)
    /\ probe_printed' = Some(ProbeLine(probe_connection_id, "error"))
    /\ probe_socket_closed' = TRUE

\* socket() and sendto(request_packet) succeed; start_time and the counters
\* are set
ProbeStart ==
    /\ probe_pc = "start"
    /\ probe_pc' = "recv"
    /\ total_received' = 0
    /\ received_segments' = {}
    /\ total_segments_reported' = None
    /\ idle_ticks' = 0
    /\ silent_ticks' = 0
    /\ UNCHANGED <<total_time, speed, success_percent, probe_error,
                   probe_socket_closed, probe_history, probe_connection_id,
                   probe_printed>>
    /\ UNCHANGED <<server_vars, beacon_vars, listen_vars, tcp_vars, ext_vars>>

\* sendto(request_packet) raises (network unreachable)
ProbeStartFails ==
    /\ probe_pc = "start"
    /\ ProbeFail("OSError")
    /\ UNCHANGED <<total_received, received_segments, total_segments_reported,
                   total_time, speed, success_percent, idle_ticks,
                   silent_ticks, probe_history, probe_connection_id>>
    /\ UNCHANGED <<server_vars, beacon_vars, listen_vars, tcp_vars, ext_vars>>

\* settimeout(1); recvfrom(4096) raises socket.timeout once the call has
\* waited the whole timeout
\* ticks of the model's clock in a second
TicksPerSecond == 2

IdlePeriodExpiresAtOnce(idle) == TRUE
IdlePeriodOver(idle) == idle >= IDLE_TIMEOUT * TicksPerSecond

\* one iteration of the receive loop in which recvfrom returns data: the
\* datagram arrived before the timeout, and the next iteration calls
\* settimeout(1) and recvfrom anew
ProbeRecv(data) ==
    /\ probe_pc = "recv"
    /\ ~IdlePeriodOver(idle_ticks)
    /\ Len(probe_history) < MaxProbeRecv
    /\ idle_ticks' = 0
    /\ silent_ticks' = 0
    /\ probe_history' = Append(probe_history, data)
    /\ LET acc == ProbeAccount([total_received          |-> total_received,
                                 total_segments_reported |-> total_segments_reported,
                                 received_segments       |-> received_segments],
                                data)
       IN  /\ total_received' = acc.total_received
           /\ total_segments_reported' = acc.total_segments_reported
           /\ received_segments' = acc.received_segments
    /\ UNCHANGED <<probe_pc, total_time, speed, success_percent, probe_error,
                   probe_socket_closed, probe_connection_id, probe_printed>>
    /\ UNCHANGED <<server_vars, beacon_vars, listen_vars, tcp_vars, ext_vars>>

\* k ticks pass in which recvfrom is blocked and no datagram arrives
IdleTick(k) ==
    /\ probe_pc = "recv"
    /\ k >= 1
    /\ ~IdlePeriodOver(idle_ticks + k - 1)
    /\ idle_ticks' = idle_ticks + k
    /\ silent_ticks' = silent_ticks + k
    /\ UNCHANGED <<probe_pc, total_received, received_segments,
                   total_segments_reported, total_time, speed, success_percent,
                   probe_error, probe_socket_closed, probe_history,
                   probe_connection_id, probe_printed>>
    /\ UNCHANGED <<server_vars, beacon_vars, listen_vars, tcp_vars, ext_vars>>

\* speed = (total_received * 8) / total_time if total_time > 0 else 0
ProbeSpeed(received, elapsed) ==
    IF elapsed > 0 THEN Rat(received * 8, elapsed) ELSE Rat(0, 1)

ZeroDivisionNever(divisor) == FALSE
\* num_segments_lost / total_segments_reported raises ZeroDivisionError
ZeroDivision(divisor) == divisor = 0

\* recvfrom raises socket.timeout: the loop breaks, end_time is read `elapsed`
\* ticks after start_time, and the statistics are computed and printed.  A
\* total_segments_reported of 0 makes the division raise ZeroDivisionError.
ProbeTimeout(elapsed) ==
    /\ probe_pc = "recv"
    /\ IdlePeriodOver(idle_ticks)
    /\ total_time' = Some(elapsed)
    /\ speed' = Some(ProbeSpeed(total_received, elapsed))
    /\ IF /\ total_segments_reported # None
          /\ ZeroDivision(Val(total_segments_reported))
       THEN /\ ProbeFail("ZeroDivisionError")
            /\ UNCHANGED success_percent
       ELSE /\ success_percent' =
                   Some(ProbeSuccessPercent(total_segments_reported,
                                            received_segments))
            /\ probe_pc' = "finished"
            /\ probe_printed' = Some(ProbeLine(probe_connection_id, "finished"))
            /\ probe_socket_closed' = TRUE
            /\ UNCHANGED probe_error
    /\ UNCHANGED <<total_received, received_segments, total_segments_reported,
                   idle_ticks, silent_ticks, probe_history,
                   probe_connection_id>>
    /\ UNCHANGED <<server_vars, beacon_vars, listen_vars, tcp_vars, ext_vars>>

-----------------------------------------------------------------------------
(* Presentation.run_program, Client.run and Client.speed_test *)

\* sessions the model lets run_program start
MaxSessions == 2
\* the largest tcp_connections and udp_connections the user enters
MaxConnections == 2

\* a thread of speed_test running tcp_transfer or udp_transfer with
\* args=(connection_id,)
\*   pc        "running" | "finished" | "error"
\*   printed   the line the transfer printed when it ended, or None
NewThread(kind, connection_id) ==
    [kind |-> kind, connection_id |-> connection_id, pc |-> "running",
     printed |-> None]

NumThreads(kind) == Cardinality({t \in DOMAIN threads : threads[t].kind = kind})

StillRunning(th) == th.pc = "running"

ThreadTerminatedAlways(th) == TRUE
\* t.join() returns once the thread has ended
ThreadTerminated(th) == th.pc \in {"finished", "error"}

ThreadTagLatest(t) ==
    [kind |-> threads[Len(threads)].kind,
     connection_id |-> threads[Len(threads)].connection_id]
\* "TCP transfer #{connection_id}" / "UDP transfer #{connection_id}" of the
\* lines a transfer prints
ThreadTag(t) ==
    [kind |-> threads[t].kind, connection_id |-> threads[t].connection_id]

\* listen_for_offers has returned and run calls speed_test: threads = []
SpeedTestBegin ==
    /\ session_pc = "listen"
    /\ listen_pc = "done"
    /\ session_pc' = "start_tcp"
    /\ threads' = <<>>
    /\ joined' = 0
    /\ session_endpoint' = <<server_ip, tcp_port, udp_port>>
    /\ offers_seen' = <<>>
    /\ UNCHANGED <<listen_pc, server_ip, tcp_port, udp_port, endpoint_at_listen>>
    /\ UNCHANGED <<sessions_started, stop_requested, sessions_at_stop>>
    /\ UNCHANGED <<server_vars, beacon_vars, tcp_vars, probe_vars, config_vars,
                   tcpsrv_vars>>

\* for i in range(1, self.tcp_connections + 1): one thread is started, or
\* the range is exhausted
StartTcpThread ==
    /\ session_pc = "start_tcp"
    /\ IF NumThreads("tcp") < tcp_connections
       THEN /\ threads' = Append(threads, NewThread("tcp", NumThreads("tcp") + 1))
            /\ UNCHANGED session_pc
       ELSE /\ session_pc' = "start_udp"
            /\ UNCHANGED threads
    /\ UNCHANGED <<joined, sessions_started, session_endpoint, stop_requested,
                   sessions_at_stop>>
    /\ UNCHANGED <<server_vars, beacon_vars, listen_vars, tcp_vars, probe_vars,
                   config_vars, tcpsrv_vars>>

\* for i in range(1, self.udp_connections + 1)
StartUdpThread ==
    /\ session_pc = "start_udp"
    /\ IF NumThreads("udp") < udp_connections
       THEN /\ threads' = Append(threads, NewThread("udp", NumThreads("udp") + 1))
            /\ UNCHANGED session_pc
       ELSE /\ session_pc' = "join"
            /\ UNCHANGED threads
    /\ UNCHANGED <<joined, sessions_started, session_endpoint, stop_requested,
                   sessions_at_stop>>
    /\ UNCHANGED <<server_vars, beacon_vars, listen_vars, tcp_vars, probe_vars,
                   config_vars, tcpsrv_vars>>

\* thread t's transfer ends: it prints its result ("finished"), or its except
\* clause prints the error of a failed connect, send or receive ("error");
\* its finally clause closes its socket
ThreadEnds(t, outcome) ==
    /\ t \in DOMAIN threads
    /\ threads[t].pc = "running"
    /\ threads' = [threads EXCEPT
                       ![t].pc = outcome,
                       ![t].printed = Some([tag |-> ThreadTag(t),
                                            outcome |-> outcome])]
    /\ UNCHANGED <<session_pc, joined, sessions_started, session_endpoint,
                   stop_requested, sessions_at_stop>>
    /\ UNCHANGED <<server_vars, beacon_vars, listen_vars, tcp_vars, probe_vars,
                   config_vars, tcpsrv_vars>>

\* for t in threads: t.join() returns for the next thread of the list, or the
\* list is exhausted and "All transfers complete" is printed
JoinThread ==
    /\ session_pc = "join"
    /\ IF joined < Len(threads)
       THEN /\ ThreadTerminated(threads[joined + 1])
            /\ joined' = joined + 1
            /\ UNCHANGED session_pc
       ELSE /\ session_pc' = "complete"
            /\ UNCHANGED joined
    /\ UNCHANGED <<threads, sessions_started, session_endpoint, stop_requested,
                   sessions_at_stop>>
    /\ UNCHANGED <<server_vars, beacon_vars, listen_vars, tcp_vars, probe_vars,
                   config_vars, tcpsrv_vars>>

\* speed_test and run return, and with them the list `threads` (the model
\* keeps account of whichever of its threads still run); `while True` of
\* run_program calls client.run() again, which calls listen_for_offers
NextSession ==
    /\ session_pc = "complete"
    /\ sessions_started < MaxSessions
    /\ sessions_started' = sessions_started + 1
    /\ session_pc' = "listen"
    /\ listen_pc' = "recv"
    /\ endpoint_at_listen' = <<server_ip, tcp_port, udp_port>>
    /\ offers_seen' = <<>>
    /\ threads' = SelectSeq(threads, StillRunning)
    /\ joined' = 0
    /\ UNCHANGED <<server_ip, tcp_port, udp_port>>
    /\ UNCHANGED <<session_endpoint, stop_requested, sessions_at_stop>>
    /\ UNCHANGED <<server_vars, beacon_vars, tcp_vars, probe_vars, config_vars,
                   tcpsrv_vars>>

\* somebody asks the client to stop; nothing in run_program, run or
\* speed_test reads such a request
RequestStop ==
    /\ ~stop_requested
    /\ stop_requested' = TRUE
    /\ sessions_at_stop' = sessions_started
    /\ UNCHANGED <<session_pc, threads, joined, sessions_started,
                   session_endpoint>>
    /\ UNCHANGED <<server_vars, beacon_vars, listen_vars, tcp_vars, probe_vars,
                   config_vars, tcpsrv_vars>>

\* the listener takes an offer or another datagram of one of two senders
SessionDatagrams ==
    {m \in ForeignOfferDatagrams : DLen(m) \in {5, 9}}
ListenRecvAny ==
    \E message \in SessionDatagrams : \E ip \in {OtherIp, ServerIp} :
        ListenRecv(message, ip)

-----------------------------------------------------------------------------
(* The frames the pair exchanges: offer, request, payload *)

\* the address the probe's UDP socket sends from
ProbeAddr == "10.0.0.2:5001"

\* request_packet = struct.pack('!IBQ', MAGIC_COOKIE, MESSAGE_TYPE_REQUEST,
\* self.file_size)
ClientRequest ==
    [head |-> PackRequest(MAGIC_COOKIE, MESSAGE_TYPE_REQUEST, client_file_size),
     tail |-> 0]

\* run calls speed_test once listen_for_offers has returned, and a
\* udp_transfer thread starts and sends its request
ProbeStartAfterOffer ==
    /\ listen_pc = "done"
    /\ ProbeStart

\* the server's request loop takes the request the probe has sent
ProbeRequestArrives ==
    /\ probe_pc # "start"
    /\ udp_threads = <<>>
    /\ HandleUdpRequest(ClientRequest, ProbeAddr)

\* the probe's recvfrom returns a datagram a send thread has sent to it
ProbeRecvSegment ==
    \E t \in DOMAIN udp_threads : \E i \in DOMAIN udp_threads[t].sent :
        /\ udp_threads[t].sent[i].dst = ProbeAddr
        /\ ProbeRecv(udp_threads[t].sent[i].data)

-----------------------------------------------------------------------------
(* Initial states *)

\* Server.__init__ has bound the sockets; no request has been taken
InitServer ==
    /\ udp_recv_count = 0
    /\ udp_threads = <<>>

\* the beacon thread is about to send its first offer
InitBeacon ==
    /\ actual_udp_port \in ServerUdpPorts
    /\ actual_tcp_port \in ServerTcpPorts
    /\ beacon_pc = "send"
    /\ beacon_ticks = 0
    /\ offers_sent = <<>>
    /\ send_failures = 0

IdleBeacon ==
    /\ actual_udp_port = 5005
    /\ actual_tcp_port = 5006
    /\ beacon_pc = "send"
    /\ beacon_ticks = 0
    /\ offers_sent = <<>>
    /\ send_failures = 0

\* Client.__init__ leaves the endpoint None; run_program calls client.run()
\* again and again on the same object, so a later listen_for_offers starts
\* with the endpoint of the session before
InitListen ==
    /\ listen_pc = "recv"
    /\ \E e \in {<<None, None, None>>, <<Some(OtherIp), Some(7002), Some(7001)>>} :
           /\ server_ip = e[1]
           /\ tcp_port = e[2]
           /\ udp_port = e[3]
    /\ endpoint_at_listen = <<server_ip, tcp_port, udp_port>>
    /\ offers_seen = <<>>

IdleListen ==
    /\ listen_pc = "recv"
    /\ server_ip = None /\ tcp_port = None /\ udp_port = None
    /\ endpoint_at_listen = <<None, None, None>>
    /\ offers_seen = <<>>

\* a tcp_transfer thread has been started
InitTcp ==
    /\ tcp_pc = "connect"
    /\ tcp_recv_calls = 0
    /\ tcp_total_received = 0
    /\ tcp_total_time = None
    /\ tcp_speed = None
    /\ tcp_error = None
    /\ tcp_socket_closed = FALSE

\* Client.__init__ has stored its arguments
IdleConfig ==
    /\ client_file_size = 1
    /\ tcp_connections = 1
    /\ udp_connections = 1

\* the TCP socket listens; nobody has connected
InitTcpServer == tcp_conns = [c \in TcpPeers |-> NoConnection]

\* run_program has called client.run() for the first time
InitSession ==
    /\ session_pc = "listen"
    /\ threads = <<>>
    /\ joined = 0
    /\ sessions_started = 1
    /\ session_endpoint = <<None, None, None>>
    /\ stop_requested = FALSE
    /\ sessions_at_stop = 0

IdleExt == IdleConfig /\ InitTcpServer /\ InitSession

\* a udp_transfer thread has been started, its connection_id among ids
InitProbeOf(ids) ==
    /\ probe_connection_id \in ids
    /\ probe_printed = None
    /\ probe_pc = "start"
    /\ total_received = 0
    /\ received_segments = {}
    /\ total_segments_reported = None
    /\ total_time = None
    /\ speed = None
    /\ success_percent = None
    /\ probe_error = None
    /\ probe_socket_closed = FALSE
    /\ idle_ticks = 0
    /\ silent_ticks = 0
    /\ probe_history = <<>>

\* for i in range(1, self.udp_connections + 1): the first udp_transfer thread
InitProbe == InitProbeOf({1})

-----------------------------------------------------------------------------
(* The server's UDP request loop with the send threads it spawns *)

InitUdpServer ==
    InitServer /\ IdleBeacon /\ IdleListen /\ InitTcp /\ InitProbe /\ IdleExt

NextUdpServer ==
    \/ \E data \in RequestDatagrams, client_addr \in ClientAddrs :
           HandleUdpRequest(data, client_addr)
    \/ \E t \in DOMAIN udp_threads : SendSegment(t)
    \/ \E t \in DOMAIN udp_threads : SendDone(t)

SpecUdpServer == InitUdpServer /\ [][NextUdpServer]_vars

(* The server's beacon with a client listening for offers *)

InitDiscovery ==
    InitServer /\ InitBeacon /\ InitListen /\ InitTcp /\ InitProbe /\ IdleExt

NextDiscovery ==
    \/ BroadcastOffer
    \/ BroadcastOfferFails
    \/ BeaconSleep
    \/ ListenRecvOffer
    \/ ListenRecvForeign

SpecDiscovery == InitDiscovery /\ [][NextDiscovery]_vars

(* One TCP probe against a peer that sends what it likes *)

InitTcpProbe ==
    InitServer /\ IdleBeacon /\ IdleListen /\ InitTcp /\ InitProbe /\ IdleExt

NextTcpProbe ==
    \/ TcpConnect
    \/ TcpConnectFails
    \/ \E n \in TcpRecvSizes : TcpRecvData(n)
    \/ TcpRecvFails
    \/ \E elapsed \in Elapsed : TcpRecvEof(elapsed)

SpecTcpProbe == InitTcpProbe /\ [][NextTcpProbe]_vars

(* One UDP probe against a network that delivers what it likes *)

InitUdpProbe ==
    InitServer /\ IdleBeacon /\ IdleListen /\ InitTcp /\ InitProbe /\ IdleExt

NextUdpProbe ==
    \/ ProbeStart
    \/ ProbeStartFails
    \/ \E data \in ProbeDatagrams : ProbeRecv(data)
    \/ IdleTick(IDLE_TIMEOUT * TicksPerSecond)
    \/ \E elapsed \in Elapsed : ProbeTimeout(elapsed)

SpecUdpProbe == InitUdpProbe /\ [][NextUdpProbe]_vars

-----------------------------------------------------------------------------
(* One UDP probe and its idle timeout, tick by tick, against a network that *)
(* delivers short datagrams                                                 *)

\* a Payload frame that is the only segment of a transfer and carries no
\* payload
HeaderOnlySegment == [head |-> PayloadHeader(1, 0), tail |-> 0]

\* the Payload frames with at most one byte of payload, and the datagrams
\* the probe discards
ShortDatagrams ==
    {d \in ProbeDatagrams \cup {HeaderOnlySegment} : DLen(d) <= 22}
    \cup JunkDatagrams

\* the probe is any of the udp_transfer threads speed_test starts
InitUdpProbeTimer ==
    /\ InitServer /\ IdleBeacon /\ IdleListen /\ InitTcp /\ IdleExt
    /\ InitProbeOf(1 .. MaxConnections)

NextUdpProbeTimer ==
    \/ ProbeStart
    \/ ProbeStartFails
    \/ \E data \in ShortDatagrams : ProbeRecv(data)
    \/ IdleTick(1)
    \/ \E elapsed \in Elapsed : ProbeTimeout(elapsed)

SpecUdpProbeTimer == InitUdpProbeTimer /\ [][NextUdpProbeTimer]_vars

-----------------------------------------------------------------------------
(* The server's TCP side with the client's TCP probe and one other peer *)

InitTcpTransfer ==
    /\ InitServer /\ IdleBeacon /\ IdleListen /\ InitTcp /\ InitProbe
    /\ InitTcpServer /\ InitSession
    /\ client_file_size \in TcpFileSizes
    /\ tcp_connections = 1
    /\ udp_connections = 0

NextTcpTransfer ==
    \/ TcpConnect
    \/ TcpConnectFails
    \/ \E request \in OtherRequests : OtherConnects(request)
    \/ \E c \in TcpPeers :
           \/ TcpAccept(c)
           \/ \E k \in 1 .. Len(tcp_conns[c].pending) : HandlerRecv(c, k)
           \/ HandlerRecvEof(c)
           \/ HandlerSend(c)
           \/ HandlerSendFails(c)
           \/ HandlerFinish(c)
    \/ TcpRecvStream(Min(TCP_RECV_SIZE, InFlight))
    \/ TcpRecvFails
    \/ \E elapsed \in Elapsed : TcpStreamEof(elapsed)

SpecTcpTransfer == InitTcpTransfer /\ [][NextTcpTransfer]_vars

-----------------------------------------------------------------------------
(* The client's sessions: discovery, then the probes of speed_test *)

InitClientSessions ==
    /\ InitServer /\ IdleBeacon /\ IdleListen /\ InitTcp /\ InitProbe
    /\ InitTcpServer /\ InitSession
    /\ client_file_size = 1
    /\ tcp_connections \in 0 .. MaxConnections
    /\ udp_connections \in 0 .. MaxConnections

NextClientSessions ==
    \/ ListenRecvAny
    \/ SpeedTestBegin
    \/ StartTcpThread
    \/ StartUdpThread
    \/ \E t \in DOMAIN threads : \E outcome \in {"finished", "error"} :
           ThreadEnds(t, outcome)
    \/ JoinThread
    \/ NextSession
    \/ RequestStop

SpecClientSessions == InitClientSessions /\ [][NextClientSessions]_vars

-----------------------------------------------------------------------------
(* The server and the client exchanging offer, request and payload frames *)

InitExchange ==
    /\ InitServer /\ InitBeacon /\ IdleListen /\ InitTcp /\ InitProbe
    /\ InitTcpServer /\ InitSession
    /\ client_file_size \in FileSizes
    /\ tcp_connections = 0
    /\ udp_connections = 1

NextExchange ==
    \/ BroadcastOffer
    \/ BeaconSleep
    \/ ListenRecvOffer
    \/ ProbeStartAfterOffer
    \/ ProbeRequestArrives
    \/ \E t \in DOMAIN udp_threads : SendSegment(t)
    \/ \E t \in DOMAIN udp_threads : SendDone(t)
    \/ ProbeRecvSegment
    \/ IdleTick(1)
    \/ \E elapsed \in Elapsed : ProbeTimeout(elapsed)

SpecExchange == InitExchange /\ [][NextExchange]_vars

-----------------------------------------------------------------------------
(* Properties of the server's UDP send threads *)

CeilDiv(a, b) == IF a % b = 0 THEN a \div b ELSE (a \div b) + 1

\* len(payload) of a datagram the server sent
SentPayloadLen(m) == DLen(m.data) - 21

RECURSIVE SumPayloadLens(_)
SumPayloadLens(sent) ==
    IF sent = <<>> THEN 0
    ELSE SumPayloadLens(SubSeq(sent, 1, Len(sent) - 1)) + SentPayloadLen(sent[Len(sent)])

\* C1: for every requested size, a send thread sends ceil(file_size/1024)
\* segments, the i-th of them (from 0) carrying min(1024, file_size - 1024*i)
\* payload bytes, and the payload lengths add up to file_size; a request for
\* 0 bytes sends nothing.
C1_SegmentCountAndLengths ==
    \A t \in DOMAIN udp_threads :
        LET th == udp_threads[t]
        IN  /\ Len(th.sent) <= CeilDiv(th.file_size, 1024)
            /\ \A i \in DOMAIN th.sent :
                   /\ th.sent[i].dst = th.client_addr
                   /\ SentPayloadLen(th.sent[i]) =
                          Min(1024, th.file_size - 1024 * (i - 1))
            /\ th.pc = "done" =>
                   /\ Len(th.sent) = CeilDiv(th.file_size, 1024)
                   /\ SumPayloadLens(th.sent) = th.file_size
                   /\ th.file_size = 0 => th.sent = <<>>

\* a finished transfer whose last segment is a short one
C1_Witness ==
    \E t \in DOMAIN udp_threads :
        /\ udp_threads[t].pc = "done"
        /\ udp_threads[t].file_size = 1025
        /\ Len(udp_threads[t].sent) = 2

\* the header fields of a datagram the server sent, read off its bytes
SentTotal(m) == UnpackBE(SubSeq(m.data.head, 6, 13))
SentIndex(m) == UnpackBE(SubSeq(m.data.head, 14, 21))

\* C2: within one transfer the segment_index values sent are 0, 1, 2, ... in
\* this order, each once, every segment carries the same total_segments, and
\* a finished transfer has sent exactly the indices 0 .. total_segments-1.
C2_IndicesInOrderOnce ==
    \A t \in DOMAIN udp_threads :
        LET th == udp_threads[t]
        IN  /\ \A i \in DOMAIN th.sent :
                   /\ SentIndex(th.sent[i]) = i - 1
                   /\ SentTotal(th.sent[i]) = SentTotal(th.sent[1])
                   /\ SentIndex(th.sent[i]) < SentTotal(th.sent[i])
            /\ (th.pc = "done" /\ th.sent # <<>>) =>
                   {SentIndex(th.sent[i]) : i \in DOMAIN th.sent} =
                       0 .. (SentTotal(th.sent[1]) - 1)

\* a finished transfer of more than one segment
C2_Witness ==
    \E t \in DOMAIN udp_threads :
        /\ udp_threads[t].pc = "done"
        /\ Len(udp_threads[t].sent) >= 2

\* the datagrams sent to addr, as <<thread, position in the thread's log>>
SentTo(addr) ==
    {<<t, i>> \in (DOMAIN udp_threads) \X (1 .. (MaxChunks + 1)) :
        i <= Len(udp_threads[t].sent) /\ udp_threads[t].sent[i].dst = addr}

\* threads t and u serve requests for different sizes from different
\* addresses, t the only request of its address
DifferentRequests(t, u) ==
    /\ t # u
    /\ udp_threads[t].client_addr # udp_threads[u].client_addr
    /\ udp_threads[t].file_size # udp_threads[u].file_size
    /\ \A v \in DOMAIN udp_threads :
           udp_threads[v].client_addr = udp_threads[t].client_addr => v = t

\* C13: of two UDP requests for different sizes from different addresses,
\* each address is sent the segments of its own transfer and no other: they
\* declare its own total_segments = ceil(file_size/1024) and carry the indices
\* 0 .. total_segments-1 once each; and while the first send thread has
\* segments left to send, the request loop takes a second request from
\* another address.
C13_ConcurrentTransfersAreIsolated ==
    /\ \A t, u \in DOMAIN udp_threads :
           DifferentRequests(t, u) =>
               LET th == udp_threads[t]
                   T  == CeilDiv(th.file_size, 1024)
                   to == SentTo(th.client_addr)
               IN  /\ to = {t} \X (DOMAIN th.sent)
                   /\ \A p \in to :
                          LET m == udp_threads[p[1]].sent[p[2]]
                          IN  /\ SentTotal(m) = T
                              /\ SentIndex(m) = p[2] - 1
                              /\ SentIndex(m) < T
                   /\ th.pc = "done" => Cardinality(to) = T
    /\ (/\ udp_recv_count < MaxRequests
        /\ Len(udp_threads) = 1
        /\ udp_threads[1].pc = "loop"
        /\ udp_threads[1].segment_idx < udp_threads[1].total_segments) =>
           \A client_addr \in ClientAddrs \ {udp_threads[1].client_addr} :
               \A data \in RequestDatagrams :
                   ENABLED HandleUdpRequest(data, client_addr)

\* two transfers of different sizes to different addresses, the second under
\* way while the first has segments left to send
C13_Witness ==
    /\ Len(udp_threads) = 2
    /\ DifferentRequests(1, 2)
    /\ udp_threads[1].pc = "loop"
    /\ udp_threads[1].segment_idx < udp_threads[1].total_segments
    /\ udp_threads[2].total_segments >= 2
    /\ Len(udp_threads[2].sent) >= 1

-----------------------------------------------------------------------------
(* Properties of the UDP probe *)

\* a datagram that is a Payload frame: at least 21 bytes, the cookie, type 0x4
IsPayloadFrame(d) ==
    /\ DLen(d) >= 21
    /\ SubSeq(d.head, 1, 4) = <<171, 205, 220, 186>>
    /\ d.head[5] = 4
FrameTotal(d) == UnpackBE(SubSeq(d.head, 6, 13))
FrameIndex(d) == UnpackBE(SubSeq(d.head, 14, 21))

\* the positions of probe_history that hold Payload frames
FramePositions == {i \in DOMAIN probe_history : IsPayloadFrame(probe_history[i])}
IndicesDelivered == {FrameIndex(probe_history[i]) : i \in FramePositions}

\* the receive loop has ended by its idle timeout
ProbeLoopEnded == probe_pc \in {"finished", "error"} /\ total_time # None

\* every Payload frame delivered declares T segments
OneTransfer(T) ==
    /\ FramePositions # {}
    /\ \A i \in FramePositions : FrameTotal(probe_history[i]) = T

\* the Payload frames delivered are distinct segments of one transfer of T
SubsetDelivered(T) ==
    /\ T > 0
    /\ OneTransfer(T)
    /\ \A i \in FramePositions : FrameIndex(probe_history[i]) < T
    /\ \A i, j \in FramePositions :
           i # j => FrameIndex(probe_history[i]) # FrameIndex(probe_history[j])

\* C3: a probe that was delivered k distinct segments of a transfer declaring
\* T > 0 segments, each once, reports the success ratio k/T (as a percentage,
\* 100*k/T).
C3_SuccessRatioIsFractionReceived ==
    \A T \in 1 .. (MaxChunks + 1) :
        (ProbeLoopEnded /\ SubsetDelivered(T)) =>
            /\ probe_pc = "finished"
            /\ RatEq(Val(success_percent), Rat(100 * Cardinality(FramePositions), T))

\* a finished probe that got one segment of two and reports 50%
C3_Witness ==
    /\ probe_pc = "finished"
    /\ SubsetDelivered(2)
    /\ Cardinality(FramePositions) = 1
    /\ RatEq(Val(success_percent), Rat(50, 1))

RECURSIVE SortedIndices(_)
\* the elements of a set of numbers, in increasing order
SortedIndices(S) ==
    IF S = {} THEN <<>>
    ELSE LET m == CHOOSE x \in S : \A y \in S : x <= y
         IN  <<m>> \o SortedIndices(S \ {m})

\* the delivery of the same segments with each index once, in index order
ReferenceDelivery ==
    LET idx == SortedIndices(IndicesDelivered)
    IN  [k \in DOMAIN idx |->
            probe_history[CHOOSE i \in FramePositions :
                              FrameIndex(probe_history[i]) = idx[k]]]

RECURSIVE ProbeAccountAll(_, _)
\* the counters after the receive loop has taken the datagrams of seq
ProbeAccountAll(acc, seq) ==
    IF seq = <<>> THEN acc
    ELSE ProbeAccountAll(ProbeAccount(acc, Head(seq)), Tail(seq))

ReferenceCounters ==
    ProbeAccountAll([total_received          |-> 0,
                     total_segments_reported |-> None,
                     received_segments       |-> {}],
                    ReferenceDelivery)

\* C4: the success ratio depends only on the set of indices delivered and on
\* total_segments: whatever the arrival order and however often a segment of
\* one transfer is delivered, the probe reports what it reports when the same
\* segments arrive once each in index order.
C4_SuccessRatioIgnoresOrderAndDuplicates ==
    \A T \in 1 .. (MaxChunks + 1) :
        (probe_pc = "finished" /\ OneTransfer(T)) =>
            RatEq(Val(success_percent),
                  ProbeSuccessPercent(ReferenceCounters.total_segments_reported,
                                      ReferenceCounters.received_segments))

\* a finished probe that saw a segment twice and two segments out of order
C4_Witness ==
    /\ probe_pc = "finished"
    /\ \E T \in 1 .. (MaxChunks + 1) : OneTransfer(T)
    /\ \E i, j \in FramePositions :
           i < j /\ FrameIndex(probe_history[i]) = FrameIndex(probe_history[j])
    /\ \E i, j \in FramePositions :
           i < j /\ FrameIndex(probe_history[i]) > FrameIndex(probe_history[j])

Max(a, b) == IF a >= b THEN a ELSE b

\* C5: whatever valid Payload frames arrive, the loss ratio is
\* max(0, total_segments - |distinct indices|) / total_segments, and so the
\* success ratio reported lies between 0 and 1 (0% and 100%).
C5_SuccessRatioWithinBounds ==
    (probe_pc = "finished" /\ FramePositions # {}) =>
        LET T == FrameTotal(probe_history[CHOOSE i \in FramePositions :
                                              \A j \in FramePositions : j <= i])
            lost == Max(0, T - Cardinality(IndicesDelivered))
        IN  /\ RatEq(Val(success_percent), Rat(100 * T - 100 * lost, T))
            /\ RatLe(Rat(0, 1), Val(success_percent))
            /\ RatLe(Val(success_percent), Rat(100, 1))

\* C10: a probe whose receive loop ended without one valid Payload frame
\* (nothing delivered, or only short, wrong-cookie or wrong-type datagrams)
\* finishes with a success of 100% and zero bytes received.
C10_NothingValidReportsFullSuccess ==
    (ProbeLoopEnded /\ FramePositions = {}) =>
        /\ probe_pc = "finished"
        /\ RatEq(Val(success_percent), Rat(100, 1))
        /\ total_received = 0
        /\ Val(speed).num = 0

\* a finished probe that was delivered datagrams, none of them a Payload
\* frame, among them one of the wrong type
C10_Witness ==
    /\ probe_pc = "finished"
    /\ Len(probe_history) >= 2
    /\ FramePositions = {}
    /\ \E i \in DOMAIN probe_history :
           DLen(probe_history[i]) >= 21 /\ probe_history[i].head[5] # 4

\* what udp_transfer reports of a finished probe: the line it prints carries
\* total_time, speed and success_percent
ProbeReport == <<Val(total_time), Val(speed), Val(success_percent)>>

\* the report of a probe that ran for `elapsed` and was delivered no valid
\* Payload frame: its counters are the initial ones
NoFrameReport(elapsed) ==
    <<elapsed, ProbeSpeed(0, elapsed), ProbeSuccessPercent(None, {})>>

SameReport(r, q) == r[1] = q[1] /\ RatEq(r[2], q[2]) /\ RatEq(r[3], q[3])

\* the probe finished having been delivered every segment its frames declare
EverySegmentReceived ==
    /\ probe_pc = "finished"
    /\ \E T \in 1 .. (MaxChunks + 1) :
           /\ OneTransfer(T)
           /\ IndicesDelivered = 0 .. (T - 1)

\* C11: a probe that received every declared segment never reports the same
\* data as a probe that received no valid Payload frame: the two cases are
\* distinguishable in the report.
C11_NoFrameDistinguishableFromZeroLoss ==
    EverySegmentReceived =>
        ~SameReport(ProbeReport, NoFrameReport(Val(total_time)))

\* the counters of a probe that has received nothing
NoCounters ==
    [total_received |-> 0, total_segments_reported |-> None,
     received_segments |-> {}]

ProbeCounters ==
    [total_received          |-> total_received,
     total_segments_reported |-> total_segments_reported,
     received_segments       |-> received_segments]

\* C14: the receive loop of a UDP probe ends only when a whole idle period
\* has passed since the last datagram (or since the start) with no datagram
\* received, and it does end then; a datagram received, valid or not, leaves
\* the loop running with a fresh idle period; the byte count, the segment set
\* and the last total_segments are what the valid Payload frames alone make
\* them.
C14_LoopEndsOnIdlePeriodOnly ==
    /\ ProbeLoopEnded => silent_ticks = IDLE_TIMEOUT * TicksPerSecond
    /\ (probe_pc = "recv" /\ silent_ticks = IDLE_TIMEOUT * TicksPerSecond) =>
           /\ \A data \in ShortDatagrams : ~ENABLED ProbeRecv(data)
           /\ ~ENABLED IdleTick(1)
           /\ \A elapsed \in Elapsed : ENABLED ProbeTimeout(elapsed)
    /\ (probe_pc = "recv" /\ silent_ticks < IDLE_TIMEOUT * TicksPerSecond) =>
           \A elapsed \in Elapsed : ~ENABLED ProbeTimeout(elapsed)
    /\ (probe_history # <<>> /\ silent_ticks < IDLE_TIMEOUT * TicksPerSecond) =>
           probe_pc = "recv"
    /\ probe_pc # "start" =>
           ProbeCounters =
               ProbeAccountAll(NoCounters, SelectSeq(probe_history, IsPayloadFrame))

\* a probe that received a Payload frame, later a datagram that is none, and
\* ended a whole idle period after it
C14_Witness ==
    /\ probe_pc = "finished"
    /\ Len(probe_history) >= 2
    /\ IsPayloadFrame(probe_history[1])
    /\ ~IsPayloadFrame(probe_history[Len(probe_history)])
    /\ silent_ticks = IDLE_TIMEOUT * TicksPerSecond

\* the payload bytes of the Payload frames among the datagrams of seq
RECURSIVE FrameBytes(_)
FrameBytes(seq) ==
    IF seq = <<>> THEN 0
    ELSE FrameBytes(Tail(seq))
         + (IF IsPayloadFrame(Head(seq)) THEN DLen(Head(seq)) - 21 ELSE 0)

\* C20: the byte count of a UDP probe is the sum of the payload lengths of
\* every valid Payload datagram it received, a datagram received twice counted
\* twice, while the segment set holds each index delivered once.
C20_ByteCountSumsEveryValidDatagram ==
    probe_pc # "start" =>
        /\ total_received = FrameBytes(probe_history)
        /\ received_segments = IndicesDelivered

\* a finished probe that was delivered the only segment of a 1-byte transfer
\* twice: it counts 2 bytes, more than were requested, one segment, and
\* reports full success
C20_Witness ==
    /\ probe_pc = "finished"
    /\ Len(probe_history) = 2
    /\ probe_history[1] = [head |-> PayloadHeader(1, 0), tail |-> 1]
    /\ probe_history[2] = probe_history[1]
    /\ total_received = 2
    /\ received_segments = {0}
    /\ RatEq(Val(success_percent), Rat(100, 1))

\* the position of the last Payload frame the probe was delivered
LastFramePosition ==
    CHOOSE i \in FramePositions : \A j \in FramePositions : j <= i

\* C21: a probe whose receive loop ended with the last valid Payload frame
\* declaring total_segments = 0 reports no success ratio: the division
\* raises ZeroDivisionError, the probe prints its error line under its own
\* connection id, and its socket is closed.
C21_ZeroTotalEndsInError ==
    (/\ ProbeLoopEnded
     /\ FramePositions # {}
     /\ FrameTotal(probe_history[LastFramePosition]) = 0) =>
        /\ probe_pc = "error"
        /\ probe_error = Some("ZeroDivisionError")
        /\ success_percent = None
        /\ probe_printed = Some(ProbeLine(probe_connection_id, "error"))
        /\ probe_socket_closed

\* the second udp_transfer thread was delivered a frame of a one-segment
\* transfer, then a frame declaring no segments, then a datagram it
\* discards, and ended in its error outcome
C21_Witness ==
    /\ probe_pc = "error"
    /\ probe_connection_id = 2
    /\ Len(probe_history) = 3
    /\ FramePositions = {1, 2}
    /\ FrameTotal(probe_history[1]) = 1
    /\ FrameTotal(probe_history[2]) = 0
    /\ probe_error = Some("ZeroDivisionError")
    /\ probe_socket_closed

-----------------------------------------------------------------------------
(* Properties of the TCP probe *)

\* C6: a TCP probe whose elapsed time is zero reports a throughput of zero; it
\* does not end in its error outcome.
C6_ZeroElapsedReportsZero ==
    tcp_total_time = Some(0) =>
        /\ tcp_pc = "finished"
        /\ tcp_error = None
        /\ tcp_speed # None
        /\ Val(tcp_speed).num = 0

-----------------------------------------------------------------------------
(* Properties of the TCP transfer *)

\* the handler of peer c has read the request line for N bytes, in however
\* many reads
RequestLineRead(c, N) == tcp_conns[c].data = TcpRequest(N)

\* C12: a handler that has read the line of a request for N >= 0 bytes sends
\* chunks of 1 to 4096 bytes that never exceed N in total, has sent exactly N
\* bytes when it closes the connection without an error, and the probe that
\* reads that stream to its end finishes with N bytes received.
C12_TcpTransferIsExact ==
    /\ \A c \in TcpPeers : \A N \in TcpFileSizes :
           RequestLineRead(c, N) =>
               LET conn == tcp_conns[c]
               IN  /\ conn.pc \in {"send", "closed"}
                   /\ \A i \in DOMAIN conn.chunks :
                          conn.chunks[i] \in 1 .. buffer_size
                   /\ SumSeq(conn.chunks) <= N
                   /\ conn.error = None =>
                          SumSeq(conn.chunks) + conn.bytes_left = N
                   /\ (conn.pc = "closed" /\ conn.error = None) =>
                          SumSeq(conn.chunks) = N
    /\ tcp_pc = "finished" => tcp_total_received = client_file_size

\* the probe finished a transfer of more than one buffer whose request line
\* the handler read in several pieces
C12_Witness ==
    /\ tcp_pc = "finished"
    /\ client_file_size > buffer_size
    /\ tcp_total_received = client_file_size
    /\ tcp_conns["probe"].reads >= 2
    /\ Len(tcp_conns["probe"].chunks) >= 2
    /\ tcp_conns["probe"].pc = "closed"

\* data holds a whole line that is no decimal number: a character that is
\* neither digit, sign nor blank, or no digit at all
NotDecimalLine(data) ==
    /\ "\n" \in Range(data)
    /\ \/ \E i \in DOMAIN data : data[i] \notin (Digits \cup Whitespace \cup {"+", "-"})
       \/ \A i \in DOMAIN data : data[i] \notin Digits

\* the handler of peer c can take its next step
HandlerCanStep(c) ==
    LET conn == tcp_conns[c]
    IN  /\ conn.pc = "backlog" => ENABLED TcpAccept(c)
        /\ (conn.pc = "recv" /\ conn.pending # <<>>) => ENABLED HandlerRecv(c, 1)
        /\ (conn.pc = "send" /\ conn.bytes_left > 0) => ENABLED HandlerSend(c)
        /\ (conn.pc = "send" /\ conn.bytes_left <= 0) => ENABLED HandlerFinish(c)

\* C17: a handler that has read a request line that is no decimal number
\* sends no payload byte and closes its socket, with the error printed; the
\* accept loop and the handler of every other connection can go on.
C17_BadRequestFailsOnlyItsConnection ==
    \A c \in TcpPeers :
        NotDecimalLine(tcp_conns[c].data) =>
            /\ tcp_conns[c].pc = "closed"
            /\ tcp_conns[c].chunks = <<>>
            /\ tcp_conns[c].error = Some("ValueError")
            /\ \A d \in TcpPeers \ {c} : HandlerCanStep(d)

\* the other peer's request was no number and its connection was closed with
\* nothing sent, and the probe was served its bytes in full
C17_Witness ==
    /\ NotDecimalLine(tcp_conns["other"].data)
    /\ tcp_conns["other"].pc = "closed"
    /\ tcp_pc = "finished"
    /\ client_file_size > 0
    /\ tcp_total_received = client_file_size

-----------------------------------------------------------------------------
(* Properties of the frames exchanged *)

\* the segment indices the server encoded into the datagrams the probe has
\* received: the datagram at position i of a thread's log was built with
\* segment_idx = i - 1
IndicesEncoded ==
    {i - 1 : i \in {j \in 1 .. (MaxChunks + 1) :
                       \E t \in DOMAIN udp_threads :
                           /\ j <= Len(udp_threads[t].sent)
                           /\ udp_threads[t].sent[j].data \in Range(probe_history)}}

\* C18: every frame kind survives the wire: the (udp_port, tcp_port) the
\* client stores from the server's Offer are the server's bound UDP and TCP
\* port, in this order; the size the server decodes from the client's Request
\* is the client's file size; the total_segments and the segment indices the
\* probe decodes from Payload frames are those the send thread encoded.
C18_FramesRoundTrip ==
    /\ listen_pc = "done" =>
           /\ udp_port = Some(actual_udp_port)
           /\ tcp_port = Some(actual_tcp_port)
           /\ server_ip = Some(ServerIp)
    /\ \A t \in DOMAIN udp_threads :
           /\ udp_threads[t].file_size = client_file_size
           /\ udp_threads[t].client_addr = ProbeAddr
           /\ probe_history # <<>> =>
                  total_segments_reported = Some(udp_threads[t].total_segments)
    /\ probe_pc \in {"recv", "finished"} => received_segments = IndicesEncoded

\* the client took the server's offer, the server its request, and the probe
\* finished with both segments of a two-segment transfer
C18_Witness ==
    /\ listen_pc = "done"
    /\ actual_udp_port # actual_tcp_port
    /\ Len(udp_threads) = 1
    /\ client_file_size > chunk_data_size
    /\ probe_pc = "finished"
    /\ received_segments = {0, 1}

-----------------------------------------------------------------------------
(* Properties of the client's sessions *)

\* the threads of kind `kind`, in the order they were started
ThreadsOfKind(kind) == SelectSeq(threads, LAMBDA th : th.kind = kind)

\* C15: a session starts tcp_connections TCP probes and udp_connections UDP
\* probes, numbered from 1 per transport; it is reported complete only when
\* every one of them has ended; discovery runs only while no probe runs, and
\* while a probe runs the stored endpoint is the one the session began with.
C15_SessionWaitsForAllProbes ==
    /\ session_pc \in {"join", "complete"} =>
           /\ Len(ThreadsOfKind("tcp")) = tcp_connections
           /\ Len(ThreadsOfKind("udp")) = udp_connections
           /\ \A kind \in {"tcp", "udp"} : \A i \in DOMAIN ThreadsOfKind(kind) :
                  ThreadsOfKind(kind)[i].connection_id = i
    /\ session_pc = "complete" =>
           \A t \in DOMAIN threads : threads[t].pc \in {"finished", "error"}
    /\ (\E t \in DOMAIN threads : threads[t].pc = "running") =>
           /\ session_pc \in {"start_tcp", "start_udp", "join"}
           /\ listen_pc = "done"
           /\ <<server_ip, tcp_port, udp_port>> = session_endpoint

\* the second session, with two probes of each transport, is complete, and
\* its endpoint is not the one of the first session
C15_Witness ==
    /\ sessions_started = 2
    /\ session_pc = "complete"
    /\ tcp_connections = 2 /\ udp_connections = 2
    /\ Len(threads) = 4
    /\ endpoint_at_listen # <<None, None, None>>
    /\ endpoint_at_listen # session_endpoint

\* thread t has ended and the line it printed names its own transport and
\* connection id and the way it ended
EndedWithOwnResult(t) ==
    /\ threads[t].pc \in {"finished", "error"}
    /\ threads[t].printed =
           Some([tag |-> [kind |-> threads[t].kind,
                          connection_id |-> threads[t].connection_id],
                 outcome |-> threads[t].pc])

\* C16: a probe that fails ends in the error outcome under its own connection
\* id; the failure holds up no sibling, which can still end with its own
\* result; and the session still completes: the join loop advances over a
\* failed probe as over a finished one, and in a complete session every probe
\* has ended with its own result.
C16_ProbeFailureIsContained ==
    /\ \A t \in DOMAIN threads :
           threads[t].pc # "running" => EndedWithOwnResult(t)
    /\ \A t, u \in DOMAIN threads :
           (threads[t].pc = "error" /\ threads[u].pc = "running") =>
               /\ ENABLED ThreadEnds(u, "finished")
               /\ threads[u].printed = None
    /\ (session_pc = "join" /\ joined < Len(threads)
           /\ threads[joined + 1].pc = "error") => ENABLED JoinThread
    /\ (session_pc = "join" /\ joined = Len(threads)) => ENABLED JoinThread
    /\ session_pc = "complete" =>
           \A t \in DOMAIN threads : EndedWithOwnResult(t)

\* a complete session in which the first TCP probe failed and its siblings,
\* a TCP and a UDP probe among them, finished
C16_Witness ==
    /\ session_pc = "complete"
    /\ Len(threads) >= 3
    /\ threads[1].pc = "error"
    /\ \A t \in 2 .. Len(threads) : threads[t].pc = "finished"
    /\ \E t \in DOMAIN threads : threads[t].kind = "udp"

\* C19: once a stop has been requested, run_program starts no further
\* session: at the boundary after the current session the request takes
\* effect.
C19_StopEndsTheSessionLoop ==
    stop_requested => sessions_started = sessions_at_stop

-----------------------------------------------------------------------------
(* Properties of discovery *)

Endpoint == <<server_ip, tcp_port, udp_port>>
LastSeen == offers_seen[Len(offers_seen)]

\* a 9-byte datagram that is no Offer: another cookie, or another type
NineBytesNotOffer(m) ==
    /\ DLen(m) = 9
    /\ SubSeq(m.head, 1, 4) # <<171, 205, 220, 186>> \/ m.head[5] # 2

\* a well-formed Offer
IsOffer(m) ==
    /\ DLen(m) = 9
    /\ SubSeq(m.head, 1, 4) = <<171, 205, 220, 186>>
    /\ m.head[5] = 2

\* C7: a datagram on the discovery port whose length is not the 9 bytes of an
\* Offer is discarded: the client goes on, the stored endpoint is what it
\* was, and the listener keeps waiting.
C7_WrongLengthIsDiscarded ==
    (offers_seen # <<>> /\ DLen(LastSeen.message) # 9) =>
        /\ listen_pc = "recv"
        /\ Endpoint = endpoint_at_listen

\* C8: a 9-byte datagram carrying another cookie or another type changes
\* neither server_ip, tcp_port nor udp_port and does not end discovery;
\* discovery ends only on a datagram with the cookie and the OFFER type, with
\* server_ip its source address, udp_port its bytes 6-7 and tcp_port its bytes
\* 8-9.
C8_OnlyAnOfferEndsDiscovery ==
    /\ listen_pc = "recv" => Endpoint = endpoint_at_listen
    /\ \A i \in DOMAIN offers_seen :
           NineBytesNotOffer(offers_seen[i].message) =>
               (i = Len(offers_seen) => listen_pc = "recv")
    /\ listen_pc = "done" =>
           /\ offers_seen # <<>>
           /\ IsOffer(LastSeen.message)
           /\ server_ip = Some(LastSeen.ip)
           /\ udp_port = Some(LastSeen.message.head[6] * 256 + LastSeen.message.head[7])
           /\ tcp_port = Some(LastSeen.message.head[8] * 256 + LastSeen.message.head[9])

\* discovery has ended on the server's offer after a 9-byte datagram with
\* another cookie and one with another type were passed over, with the
\* endpoint of an earlier session replaced
C8_Witness ==
    /\ listen_pc = "done"
    /\ Len(offers_seen) = 3
    /\ SubSeq(offers_seen[1].message.head, 1, 4) # <<171, 205, 220, 186>>
    /\ DLen(offers_seen[1].message) = 9
    /\ NineBytesNotOffer(offers_seen[2].message)
    /\ offers_seen[2].message.head[5] # 2
    /\ server_ip = Some(ServerIp)
    /\ udp_port = Some(actual_udp_port)
    /\ tcp_port = Some(actual_tcp_port)
    /\ endpoint_at_listen # <<None, None, None>>

\* C9: a failed broadcast send does not stop the beacon: after it the beacon
\* thread is still in its loop, sending or sleeping.
C9_BeaconSurvivesSendFailure ==
    send_failures > 0 => beacon_pc \in {"send", "sleep"}

====
